---- MODULE Spec2Model ----
(***************************************************************************)
(* Model of the AsTrade backend: the rewards/streak evaluator              *)
(* (app/services/rewards_service.py) and the 429 retry of the Extended     *)
(* Exchange transport wrapper (app/services/extended_client.py).           *)
(***************************************************************************)
EXTENDS Integers, Sequences, FiniteSets, TLC

\* ------------------------------------------------------------------ bounds
\* longest run of earlier daily claims a profile starts with
MaxHistory == 9
\* number of calendar days the model explores after that history
MaxDays == 2
\* first explored day; the earlier claims were made on the days before it
Day0 == MaxHistory + 1
MaxDay == Day0 + MaxDays - 1
\* most rows of table user_nfts the model lets a user collect
MaxNfts == 3
\* nested _make_request calls the interpreter allows before RecursionError
\* (sys.getrecursionlimit() frames in CPython), scaled down
RecursionLimit == 3

VARIABLES
    today,       \* date.today() of the rewards service
    configDays,  \* day_number of the active rows of table reward_configs
    profiles,    \* rows of table astrade_user_profiles for the user (0 or 1)
    nfts,        \* rows of table user_nfts for the user
    last,        \* what the last rewards handler returned
    calls,       \* claim_daily_reward calls in progress side by side
    settings,    \* extended_api_key / extended_secret_key as configured
    client,      \* the _make_request call in progress and how it ended
    frames,      \* arguments of the nested _make_request calls, outermost first
    wire,        \* what went over the session, oldest first
    session,     \* whether the client holds an httpx session (None otherwise)
    now,         \* time.time() in seconds
    result,      \* what the call in progress handed back or raised
    earlier,     \* a result the caller kept from an earlier call
    rest,        \* the REST request being handled and its response
    credentials, \* UserApiCredentials rows of the user (0 or 1)
    minted,      \* how many Stark private keys have been generated so far
    wallets,     \* rows of table user_wallets for the user (0 or 1)
    reply,       \* what the last credentials operation returned
    registrations, \* the last two POST /users/register requests and their outcome
    users,       \* ids of the rows of table users, per store
    identity,    \* what the last get_current_user call answered
    signing      \* two signed requests and their signatures

rvars == <<today, configDays, profiles, nfts, last>>

\* ------------------------------------------------------------ date strings
\* str(date) is the ISO string of the day; strptime(.., "%Y-%m-%d").date()
\* reads it back.  A date string is the 1-tuple of the day, None the 0-tuple.
None == <<>>
DateStr(d) == <<d>>
ParseDate(s) == s[1]

Min(a, b) == IF a < b THEN a ELSE b
Max(a, b) == IF a > b THEN a ELSE b

\* --------------------------------------------------------- reward configs
REWARD_TYPES == {"daily_streak", "galaxy_explorer"}

galaxy_explorer_reward == [day |-> 0, amount |-> 25, image |-> FALSE]

FallbackAmount(d) ==
    CASE d = 1 -> 50 [] d = 2 -> 75 [] d = 3 -> 100 [] d = 4 -> 125
      [] d = 5 -> 150 [] d = 6 -> 200 [] OTHER -> 500

fallback_daily_rewards ==
    [d \in 1..7 |-> [day |-> d, amount |-> FallbackAmount(d), image |-> FALSE]]

\* a persisted row: reward_data carries an amount and, on the image days,
\* an image_url
ConfigRow(d) == [day |-> d, amount |-> FallbackAmount(d), image |-> d \in {2, 4, 6}]

RECURSIVE OrderByDay(_)
OrderByDay(S) ==
    IF S = {} THEN <<>>
    ELSE LET m == CHOOSE x \in S : \A y \in S : x <= y
         IN  <<m>> \o OrderByDay(S \ {m})

load_reward_configs(cfg) ==
    IF cfg # {}
    THEN LET data == OrderByDay(cfg)
             valid == SelectSeq(data, LAMBDA d : 1 <= d /\ d <= 7)
         IN  [i \in 1..Len(valid) |-> ConfigRow(valid[i])]
    ELSE fallback_daily_rewards

\* ---------------------------------------------------------- profile rows
NewStreak == [current_streak |-> 0, longest_streak |-> 0, last_activity_date |-> None]

NewStreaks == [daily_login |-> NewStreak, galaxy_explorer |-> NewStreak]

\* the row ensure_user_profile inserts at registration: no streaks column yet
RegisteredRow ==
    [level |-> 1, experience |-> 0, achievements |-> <<>>,
     streaks |-> <<>>, daily_rewards_claimed |-> <<>>]

\* the row initialize_user_profile inserts
InitializedRow ==
    [level |-> 1, experience |-> 0, achievements |-> <<>>,
     streaks |-> <<NewStreaks>>, daily_rewards_claimed |-> <<>>]

initialize_user_profile(rows) ==
    IF rows = <<>>
    THEN <<InitializedRow>>
    ELSE IF rows[1].streaks = <<>>
         THEN <<[rows[1] EXCEPT !.streaks = <<NewStreaks>>,
                                !.daily_rewards_claimed = <<>>]>>
         ELSE rows

\* ------------------------------------------------------ claim_daily_reward
\* the guard comparing with yesterday's date instead of today's
claimed_today_stale(claimed_rewards, day, reward_type) ==
    \E i \in 1..Len(claimed_rewards) :
        /\ claimed_rewards[i].date = DateStr(day - 1)
        /\ claimed_rewards[i].type = reward_type

claimed_today(claimed_rewards, day, reward_type) ==
    \E i \in 1..Len(claimed_rewards) :
        /\ claimed_rewards[i].date = DateStr(day)
        /\ claimed_rewards[i].type = reward_type

daily_day_number(daily_streak) == Min(daily_streak.current_streak + 1, 7)

daily_new_streak(daily_streak) == daily_streak.current_streak + 1

daily_longest_streak(daily_streak, new_streak) ==
    Max(daily_streak.longest_streak, new_streak)

\* the level computed without the +1
new_level_floor(new_experience) == new_experience \div 1000

new_level(new_experience) == (new_experience \div 1000) + 1

NoReward == [day |-> 0, amount |-> 0, image |-> FALSE]

\* What one call computes from the row it selected: the guard, the reward
\* looked up by position in the loaded list, and the columns it will write.
\* outcome "error" is the IndexError of the lookup, caught by the handler.
ClaimPlan(profile, reward_type, day, rewards) ==
    LET claimed_rewards == profile.daily_rewards_claimed
        streaks      == profile.streaks[1]
        daily_streak == streaks.daily_login
        day_number   == daily_day_number(daily_streak)
        new_streak   == daily_new_streak(daily_streak)
        reward_config == IF reward_type = "daily_streak"
                         THEN rewards[day_number]
                         ELSE galaxy_explorer_reward
        new_streaks  == IF reward_type = "daily_streak"
                        THEN [streaks EXCEPT !.daily_login =
                                [current_streak |-> new_streak,
                                 longest_streak |-> daily_longest_streak(daily_streak, new_streak),
                                 last_activity_date |-> DateStr(day)]]
                        ELSE streaks
        new_experience == profile.experience + reward_config.amount
        failed(o) == [outcome |-> o, day_number |-> 0, reward |-> NoReward,
                      new_streak |-> 0, mint |-> FALSE, row |-> profile]
    IN  IF claimed_today(claimed_rewards, day, reward_type)
        THEN failed("already")
        ELSE IF reward_type = "daily_streak" /\ day_number > Len(rewards)
        THEN failed("error")
        ELSE [outcome |-> "ok",
              day_number |-> IF reward_type = "daily_streak" THEN day_number ELSE 0,
              reward |-> reward_config,
              new_streak |-> new_streak,
              mint |-> /\ reward_type = "daily_streak"
                       /\ day_number \in {2, 4, 6}
                       /\ reward_config.image,
              row |-> [profile EXCEPT
                          !.experience = new_experience,
                          !.level = new_level(new_experience),
                          !.streaks = <<new_streaks>>,
                          !.daily_rewards_claimed =
                              Append(claimed_rewards,
                                     [date |-> DateStr(day), type |-> reward_type,
                                      reward |-> reward_config,
                                      streak_count |-> new_streak])]]

\* an update that adds the reward to the stored row instead of overwriting it
\* with the values planned from the selected row
update_profile_in_place(stored, plan) ==
    [stored EXCEPT !.experience = stored.experience + plan.reward.amount,
                   !.level = ((stored.experience + plan.reward.amount) \div 1000) + 1,
                   !.streaks = <<[stored.streaks[1] EXCEPT
                        !.daily_login.current_streak =
                            stored.streaks[1].daily_login.current_streak + 1]>>,
                   !.daily_rewards_claimed =
                        Append(stored.daily_rewards_claimed,
                               plan.row.daily_rewards_claimed[Len(plan.row.daily_rewards_claimed)])]

\* the update of lines 294-300 writes four columns, computed from the row the
\* call selected, over whatever the table holds by then
update_profile(stored, plan) ==
    [stored EXCEPT !.experience = plan.row.experience,
                   !.level = plan.row.level,
                   !.streaks = plan.row.streaks,
                   !.daily_rewards_claimed = plan.row.daily_rewards_claimed]

add_user_nft(rows, plan, day, nft_fails) ==
    IF plan.mint /\ ~nft_fails
    THEN Append(rows, [day_number |-> plan.day_number,
                       streak_count |-> plan.new_streak,
                       acquired_date |-> DateStr(day)])
    ELSE rows

\* The whole of POST /claim-daily run without interruption: the route and the
\* service both initialise the profile, then the service selects the row,
\* plans, inserts the NFT and updates the row.  nft_fails / update_fails are
\* the storage calls raising.
claim_daily_reward(rows, nft_rows, reward_type, day, cfg, nft_fails, update_fails) ==
    LET ready == initialize_user_profile(initialize_user_profile(rows))
        plan  == ClaimPlan(ready[1], reward_type, day, load_reward_configs(cfg))
        ok    == plan.outcome = "ok" /\ ~update_fails
    IN  [profiles |-> IF ok THEN <<update_profile(ready[1], plan)>> ELSE ready,
         nfts     |-> IF plan.outcome = "ok"
                      THEN add_user_nft(nft_rows, plan, day, nft_fails)
                      ELSE nft_rows,
         success  |-> ok,
         outcome  |-> IF plan.outcome = "ok" /\ update_fails THEN "storage" ELSE plan.outcome,
         day_number |-> plan.day_number,
         reward   |-> IF ok THEN plan.reward ELSE NoReward,
         new_streak |-> IF ok THEN plan.new_streak ELSE 0]

\* ------------------------------------------ record_galaxy_explorer_activity
is_consecutive(last_activity, day) ==
    IF last_activity # None THEN day - ParseDate(last_activity) = 1 ELSE TRUE

galaxy_new_streak(galaxy_streak, day) ==
    IF is_consecutive(galaxy_streak.last_activity_date, day)
    THEN galaxy_streak.current_streak + 1
    ELSE 1

\* the longest streak overwritten by the new streak
galaxy_longest_streak_overwrite(galaxy_streak, new_streak) == new_streak

galaxy_longest_streak(galaxy_streak, new_streak) ==
    Max(galaxy_streak.longest_streak, new_streak)

\* the value the service returns when the log already holds a galaxy_explorer
\* entry of today
already_recorded_result == TRUE

\* The whole of POST /record-activity run without interruption.
record_galaxy_explorer_activity(rows, day, update_fails) ==
    LET ready   == initialize_user_profile(initialize_user_profile(rows))
        profile == ready[1]
        claimed_rewards == profile.daily_rewards_claimed
        streaks == profile.streaks[1]
        galaxy_streak == streaks.galaxy_explorer
        new_streak == galaxy_new_streak(galaxy_streak, day)
        row == [profile EXCEPT
                  !.streaks = <<[streaks EXCEPT !.galaxy_explorer =
                      [current_streak |-> new_streak,
                       longest_streak |-> galaxy_longest_streak(galaxy_streak, new_streak),
                       last_activity_date |-> DateStr(day)]]>>,
                  !.daily_rewards_claimed =
                      Append(claimed_rewards,
                             [date |-> DateStr(day), type |-> "galaxy_explorer",
                              reward |-> galaxy_explorer_reward,
                              streak_count |-> new_streak])]
    IN  IF claimed_today(claimed_rewards, day, "galaxy_explorer")
        THEN [profiles |-> ready, success |-> already_recorded_result,
              outcome |-> "already", new_streak |-> 0]
        ELSE IF update_fails
        THEN [profiles |-> ready, success |-> FALSE,
              outcome |-> "storage", new_streak |-> 0]
        ELSE [profiles |-> <<row>>, success |-> TRUE,
              outcome |-> "ok", new_streak |-> new_streak]

\* ------------------------------------------------- get_daily_rewards_status
claimed_any_today(claimed_rewards, day) ==
    \E i \in 1..Len(claimed_rewards) : claimed_rewards[i].date = DateStr(day)

\* can_claim of the response; the except branch answers can_claim = False when
\* today_reward indexes past the loaded list
get_daily_rewards_status(rows, day, cfg) ==
    LET ready   == initialize_user_profile(initialize_user_profile(rows))
        profile == ready[1]
        current_streak == profile.streaks[1].daily_login.current_streak
        done    == claimed_any_today(profile.daily_rewards_claimed, day)
        rewards == load_reward_configs(cfg)
        raises  == current_streak < 7 /\ ~done /\ current_streak + 1 > Len(rewards)
    IN  [profiles |-> ready, can_claim |-> ~raises /\ ~done]

\* ---------------------------------------------------- get_user_achievements
streak_achievements(streaks) ==
    LET daily_streak  == streaks.daily_login
        galaxy_streak == streaks.galaxy_explorer
        week == IF daily_streak.longest_streak >= 7
                THEN <<[id |-> "week_warrior", unlocked |-> TRUE]>>
                ELSE IF daily_streak.current_streak > 0
                THEN <<[id |-> "week_warrior", unlocked |-> FALSE]>>
                ELSE <<>>
        galaxy == IF galaxy_streak.longest_streak >= 30
                  THEN <<[id |-> "galaxy_master", unlocked |-> TRUE]>>
                  ELSE IF galaxy_streak.current_streak > 0
                  THEN <<[id |-> "galaxy_master", unlocked |-> FALSE]>>
                  ELSE <<>>
    IN  week \o galaxy

get_user_achievements(rows) ==
    LET ready   == initialize_user_profile(initialize_user_profile(rows))
        profile == ready[1]
        achievements == streak_achievements(profile.streaks[1])
    IN  IF Len(achievements) > Len(profile.achievements)
        THEN <<[profile EXCEPT !.achievements = achievements]>>
        ELSE ready

\* ------------------------------------------- get_user_profile_with_rewards
\* initialises the row, selects it and reads its columns
get_user_profile_with_rewards(rows) ==
    initialize_user_profile(initialize_user_profile(rows))

\* ---------------------------------------------------------- initial states
\* the persisted reward_configs tables explored: no row (built-in table), all
\* seven days active, and day 3 deactivated with a stray row outside 1..7
ConfigChoices == { {}, 1..7, {1, 2, 4, 5, 6, 7, 8} }

\* longest gap, in days, between two days with activity
MaxGap == 2

\* distance between the history lengths explored
HistoryStep == 3

RECURSIVE EarlierDays(_, _, _, _, _)
\* the rows after h earlier days, Day0-h .. Day0-1, on each of which the user
\* claimed the daily reward and, when explorer, recorded galaxy activity
EarlierDays(st, k, h, cfg, explorer) ==
    IF k > h \/ Len(st.profiles) > 1 THEN st
    ELSE LET day == Day0 - h + k - 1
             c == claim_daily_reward(st.profiles, st.nfts, "daily_streak",
                                     day, cfg, FALSE, FALSE)
             p == IF explorer
                  THEN record_galaxy_explorer_activity(c.profiles, day, FALSE).profiles
                  ELSE c.profiles
         IN  EarlierDays([profiles |-> p, nfts |-> c.nfts], k + 1, h, cfg, explorer)

NoCall ==
    [op |-> "none", reward_type |-> "none", success |-> FALSE, outcome |-> "none",
     day_number |-> 0, reward |-> NoReward, new_streak |-> 0, can_claim |-> FALSE]

RewardsInit ==
    /\ today \in Day0..Min(Day0 + MaxGap - 1, MaxDay)
    /\ configDays \in ConfigChoices
    /\ \E h \in {n \in 0..MaxHistory : n % HistoryStep = 0},
          start \in {<<>>, <<RegisteredRow>>}, explorer \in BOOLEAN :
          LET st == EarlierDays([profiles |-> start, nfts |-> <<>>], 1, h,
                                configDays, explorer)
          IN  profiles = st.profiles /\ nfts = st.nfts
    /\ last = NoCall

\* ------------------------------------------------------- rewards handlers
ClaimDaily ==
    \E reward_type \in REWARD_TYPES, nft_fails \in BOOLEAN, update_fails \in BOOLEAN :
        \E r \in {claim_daily_reward(profiles, nfts, reward_type, today, configDays,
                                     nft_fails, update_fails)} :
            /\ Len(r.nfts) <= MaxNfts
            /\ profiles' = r.profiles
            /\ nfts' = r.nfts
            /\ last' = [NoCall EXCEPT !.op = "claim", !.reward_type = reward_type,
                           !.success = r.success, !.outcome = r.outcome,
                           !.day_number = r.day_number, !.reward = r.reward,
                           !.new_streak = r.new_streak]
            /\ UNCHANGED <<today, configDays>>

RecordActivity ==
    \E update_fails \in BOOLEAN :
        \E r \in {record_galaxy_explorer_activity(profiles, today, update_fails)} :
            /\ profiles' = r.profiles
            /\ last' = [NoCall EXCEPT !.op = "record", !.reward_type = "galaxy_explorer",
                           !.success = r.success, !.outcome = r.outcome,
                           !.new_streak = r.new_streak]
            /\ UNCHANGED <<today, configDays, nfts>>

DailyStatus ==
    \E r \in {get_daily_rewards_status(profiles, today, configDays)} :
        /\ profiles' = r.profiles
        /\ last' = [NoCall EXCEPT !.op = "status", !.success = TRUE,
                       !.can_claim = r.can_claim]
        /\ UNCHANGED <<today, configDays, nfts>>

Achievements ==
    /\ profiles' = get_user_achievements(profiles)
    /\ last' = [NoCall EXCEPT !.op = "achievements", !.success = TRUE]
    /\ UNCHANGED <<today, configDays, nfts>>

ProfileWithRewards ==
    /\ profiles' = get_user_profile_with_rewards(profiles)
    /\ last' = [NoCall EXCEPT !.op = "profile", !.success = TRUE]
    /\ UNCHANGED <<today, configDays, nfts>>

\* midnight passes, once or MaxGap times
NextDay ==
    \E gap \in 1..MaxGap :
        /\ today + gap <= MaxDay
        /\ today' = today + gap
        /\ UNCHANGED <<configDays, profiles, nfts, last>>

RewardsNext ==
    \/ ClaimDaily
    \/ RecordActivity
    \/ DailyStatus
    \/ Achievements
    \/ ProfileWithRewards
    \/ NextDay

\* ------------------------------------------ claims running side by side
\* Two POST /claim-daily requests of the same user on the same day, served by
\* different workers: each call is cut at its storage round trips.
Callers == {"first", "second"}

NoPlan ==
    [outcome |-> "none", day_number |-> 0, reward |-> NoReward,
     new_streak |-> 0, mint |-> FALSE, row |-> InitializedRow]

Idle ==
    [pc |-> "idle", reward_type |-> "none", read |-> InitializedRow,
     plan |-> NoPlan, success |-> FALSE]

\* lines 218-265: initialise, select the row, test the guard, plan the update
CallSelect(c) ==
    \E reward_type \in REWARD_TYPES :
        LET ready == initialize_user_profile(initialize_user_profile(profiles))
            plan  == ClaimPlan(ready[1], reward_type, today, load_reward_configs(configDays))
        IN  /\ calls[c].pc = "idle"
            /\ profiles' = ready
            /\ calls' = [calls EXCEPT ![c] =
                  [pc |-> IF plan.outcome # "ok" THEN "done"
                          ELSE IF plan.mint THEN "insert" ELSE "update",
                   reward_type |-> reward_type, read |-> ready[1],
                   plan |-> plan, success |-> FALSE]]
            /\ UNCHANGED <<today, configDays, nfts, last>>

\* lines 267-284: insert the NFT row
CallInsertNft(c) ==
    /\ calls[c].pc = "insert"
    /\ nfts' = add_user_nft(nfts, calls[c].plan, today, FALSE)
    /\ calls' = [calls EXCEPT ![c].pc = "update"]
    /\ UNCHANGED <<today, configDays, profiles, last>>

\* lines 293-307: update the row and answer success
CallUpdate(c) ==
    /\ calls[c].pc = "update"
    /\ profiles' = <<update_profile(profiles[1], calls[c].plan)>>
    /\ calls' = [calls EXCEPT ![c].pc = "done", ![c].success = TRUE]
    /\ UNCHANGED <<today, configDays, nfts, last>>

ConcurrentNext == \E c \in Callers : CallSelect(c) \/ CallInsertNft(c) \/ CallUpdate(c)

\* ------------------------------------------- ExtendedExchangeClient
hvars == <<settings, client, frames, wire, session, now, result, earlier>>

\* the two client modules of the repository
Implementations == {"extended_client", "extended/client"}

\* the calls explored: (method, path, params, data, auth_required); params
\* is <<>> for no parameters and <<n>> for {"limit": n}
Call(method, path, params, data, auth_required) ==
    [method |-> method, path |-> path, params |-> params,
     data |-> data, auth_required |-> auth_required]

NoParams == <<>>

Limit(n) == <<n>>

RequestChoices ==
    { Call("GET", "/markets", NoParams, "none", FALSE),
      Call("GET", "/orders", Limit(10), "none", TRUE),
      Call("POST", "/orders", NoParams, "order", TRUE) }

\* what the domain methods of a module pass to _make_request
DomainCalls(module) ==
    IF module = "extended_client"
    THEN RequestChoices \cup
         { Call("GET", "/markets/BTC-USD/stats", NoParams, "none", FALSE),
           Call("GET", "/markets/stats", NoParams, "none", FALSE),
           Call("GET", "/markets/BTC-USD/orderbook", Limit(10), "none", FALSE),
           Call("GET", "/markets/BTC-USD/trades", Limit(10), "none", FALSE),
           Call("GET", "/account", NoParams, "none", TRUE),
           Call("GET", "/trades", Limit(10), "none", TRUE) }
    ELSE { Call("GET", "/markets", NoParams, "none", FALSE),
           Call("GET", "/account", NoParams, "none", TRUE),
           Call("GET", "/positions", NoParams, "none", TRUE) }

NoArgs == Call("none", "none", NoParams, "none", FALSE)

\* path.split("/") without the empty string ahead of the first slash: Python's
\* index k of the split is position k here
Split(path) ==
    CASE path = "/markets" -> <<"markets">>
      [] path = "/markets/stats" -> <<"markets", "stats">>
      [] path = "/markets/BTC-USD/stats" -> <<"markets", "BTC-USD", "stats">>
      [] path = "/markets/BTC-USD/orderbook" -> <<"markets", "BTC-USD", "orderbook">>
      [] path = "/markets/BTC-USD/trades" -> <<"markets", "BTC-USD", "trades">>
      [] path = "/markets/BTC-USD/candles" -> <<"markets", "BTC-USD", "candles">>
      [] path = "/markets/BTC-USD/funding" -> <<"markets", "BTC-USD", "funding">>
      [] path = "/orders" -> <<"orders">>
      [] path = "/orders/history" -> <<"orders", "history">>
      [] path = "/positions/history" -> <<"positions", "history">>
      [] path = "/account" -> <<"account">>
      [] path = "/positions" -> <<"positions">>
      [] path = "/trades" -> <<"trades">>
      [] OTHER -> <<>>

\* "/name" in path
HasSegment(path, name) == \E i \in 1..Len(Split(path)) : Split(path)[i] = name

EndsWith(path, name) ==
    Split(path) # <<>> /\ Split(path)[Len(Split(path))] = name

DefaultLimit == 100

\* params.get("limit", 100) if params else 100
limit_of(params) == IF params = NoParams THEN DefaultLimit ELSE params[1]

MockBookDepth == 20

MockTradesCount == 50

FundingAhead == 7200

\* what a call hands back: a payload, or the detail of the error it raised
Payload(kind, subject, stamp, count) ==
    [kind |-> kind, subject |-> subject, stamp |-> stamp, count |-> count,
     code |-> 0, message |-> "none", details |-> "none"]

\* ErrorDetail(code, message, details) as the detail of an HTTPException
ErrorDetail(code, message, details) ==
    [kind |-> "error", subject |-> "none", stamp |-> 0, count |-> 0,
     code |-> code, message |-> message, details |-> details]

NoPayload == Payload("none", "none", 0, 0)

MockSymbols == {"BTC-USD", "ETH-USD", "SOL-USD"}

get_mock_market_stats(symbol, t) ==
    IF symbol \in MockSymbols
    THEN Payload("stats", symbol, t + FundingAhead, 1)
    ELSE Payload("empty", "none", 0, 0)

get_mock_orderbook(symbol, limit, t) ==
    Payload("orderbook", symbol, t, Min(limit, MockBookDepth))

get_mock_trades(symbol, limit, t) ==
    Payload("trades", symbol, t, Min(limit, MockTradesCount))

\* the mock branch of _make_request in extended_client.py; IndexError is
\* what path.split("/")[2] raises on a path of one segment
mock_extended_client(args, t) ==
    LET path == args.path
        segments == Split(path)
        limit == limit_of(args.params)
        Reply(payload) == [error |-> "none", payload |-> payload]
        IndexError == [error |-> "IndexError", payload |-> NoPayload]
    IN  IF path = "/markets" THEN Reply(Payload("markets", "all", 0, 1))
        ELSE IF Len(segments) > 1 /\ segments[1] = "markets" /\ EndsWith(path, "stats")
        THEN Reply(get_mock_market_stats(segments[2], t))
        ELSE IF HasSegment(path, "stats") /\ ~EndsWith(path, "stats")
        THEN Reply(Payload("stats", "all", t + FundingAhead, Cardinality(MockSymbols)))
        ELSE IF HasSegment(path, "orderbook")
        THEN IF Len(segments) < 2 THEN IndexError
             ELSE Reply(get_mock_orderbook(segments[2], limit, t))
        ELSE IF HasSegment(path, "trades")
        THEN IF Len(segments) < 2 THEN IndexError
             ELSE Reply(get_mock_trades(segments[2], limit, t))
        ELSE Reply(Payload("message", path, 0, 0))

\* the mock branch of _make_request in extended/client.py
mock_extended_package(args, t) ==
    LET path == args.path
        Reply(payload) == [error |-> "none", payload |-> payload]
    IN  IF path = "/markets" THEN Reply(Payload("markets", "all", 0, 1))
        ELSE IF path = "/account" THEN Reply(Payload("balance", "account", 0, 1))
        ELSE IF path = "/positions" THEN Reply(Payload("positions", "all", 0, 2))
        ELSE IF Len(Split(path)) > 1 /\ Split(path)[1] = "positions"
        THEN Reply(Payload("position_history", "all", t, 2))
        ELSE Reply(Payload("message", path, 0, 0))

mock_response(module, args, t) ==
    IF module = "extended_client" THEN mock_extended_client(args, t)
    ELSE mock_extended_package(args, t)

\* ---- signing
Upper(method) ==
    CASE method = "get" -> "GET" [] method = "post" -> "POST" [] OTHER -> method

\* json.dumps(data, default=str) if data else ""
json_dumps(data) ==
    CASE data = "none" -> ""
      [] data = "order" -> "{order}"
      [] OTHER -> "{twap order}"

\* hmac.new(secret, message, sha256).hexdigest(): told apart by what went in
hmac_sha256(secret, message) == <<"hmac-sha256", secret, message>>

NoSignature == <<>>

SecretKey == "extended_secret_key"

\* settings.extended_secret_key left unset
NoSecret == ""

\* _generate_signature of either module, the configured secret made explicit;
\* the f-string message is kept as the tuple of its four fields
sign(module, secret, timestamp, method, path, body) ==
    IF secret = NoSecret
    THEN IF module = "extended_client"
         THEN [error |-> "401", signature |-> NoSignature]
         ELSE [error |-> "none", signature |-> NoSignature]
    ELSE [error |-> "none",
          signature |-> hmac_sha256(secret,
              <<timestamp,
                IF module = "extended_client" THEN Upper(method) ELSE method,
                path, body>>)]

\* _generate_signature under the settings in force
generate_signature(module, timestamp, method, path, body) ==
    sign(module, IF settings.secret_key THEN SecretKey ELSE NoSecret,
         timestamp, method, path, body)

Headers(auth, timestamp, signature) ==
    [auth |-> auth, X_Timestamp |-> timestamp, X_Signature |-> signature]

NoHeaders == Headers(FALSE, 0, NoSignature)

MillisPerSecond == 1000

\* _get_auth_headers: str(int(time.time() * 1000)) and the signature over it
get_auth_headers(module, args, t) ==
    LET timestamp == t * MillisPerSecond
        signed == generate_signature(module, timestamp, args.method, args.path,
                                     json_dumps(args.data))
    IN  [error |-> signed.error,
         headers |-> Headers(TRUE, timestamp, signed.signature)]

\* ---- answers of the exchange
\* status codes the exchange answers with
Statuses == {200, 302, 400, 429, 500}

\* Retry-After as the exchange may send it: absent, a number of seconds, or
\* an HTTP date
RetryAfterHeaders == {"absent", "0", "2", "Wed, 21 Oct 2026 07:28:00 GMT"}

\* bodies: a JSON object with a message, one with message and details, and a
\* body that is not JSON
Bodies == {"json", "json_details", "text"}

DefaultRetryAfter == 60

\* int(response.headers.get("Retry-After", 60)); -1 stands for ValueError
retry_after_seconds(header) ==
    CASE header = "absent" -> DefaultRetryAfter
      [] header = "0" -> 0
      [] header = "2" -> 2
      [] OTHER -> -1

\* a client that never takes the rate-limit branch
never_rate_limited(status_code) == FALSE

is_rate_limited(status_code) == status_code = 429

\* result.get("message", "Unknown error") and result.get("details") of the
\* parsed body; a body that is not JSON is wrapped as {"data": text}
message_of(body) == IF body = "text" THEN "Unknown error" ELSE "upstream message"

details_of(body) == IF body = "json_details" THEN "upstream details" ELSE "none"

BadRequest == 400

is_error_status(status_code) == status_code >= BadRequest

Event(kind, args, status, header, seconds, headers, body) ==
    [kind |-> kind, args |-> args, status |-> status, header |-> header,
     seconds |-> seconds, headers |-> headers, body |-> body]

Sent(args, headers) == Event("request", args, 0, "absent", 0, headers, "none")
Answer(status, header, body) == Event("response", NoArgs, status, header, 0, NoHeaders, body)
Slept(seconds) == Event("sleep", NoArgs, 0, "absent", seconds, NoHeaders, "none")
Failed(kind) == Event(kind, NoArgs, 0, "absent", 0, NoHeaders, "none")

Ended(pc, error) == [pc |-> pc, error |-> error]

NoEarlier == [args |-> NoArgs, payload |-> NoPayload]

\* ---- the client
HttpInit ==
    /\ settings \in [use_mock_data : BOOLEAN, secret_key : BOOLEAN,
                     module : Implementations]
    /\ client = Ended("idle", "none")
    /\ frames = <<>>
    /\ wire = <<>>
    /\ session = FALSE
    /\ now = 0
    /\ result = NoPayload
    /\ earlier = NoEarlier

\* connect(): the session is created in live mode only, and only once
connect(open) == IF ~settings.use_mock_data /\ ~open THEN TRUE ELSE open

\* lines 259-290: a domain method calls _make_request; in mock mode the call
\* answers at once from the synthetic payloads
Request(args) ==
    /\ client.pc = "idle"
    /\ frames' = <<args>>
    /\ IF settings.use_mock_data
       THEN LET mock == mock_response(settings.module, args, now)
            IN  /\ client' = IF mock.error = "none"
                             THEN Ended("returned", "none")
                             ELSE Ended("raised", mock.error)
                /\ result' = mock.payload
       ELSE /\ client' = Ended("request", "none")
            /\ result' = NoPayload
    /\ UNCHANGED <<settings, wire, session, now, earlier>>

MakeRequest == \E args \in RequestChoices : Request(args)

\* lines 292-341 of the innermost call: connect if needed, sign, send, and
\* sort the answer
SessionRequest ==
    LET args == frames[Len(frames)]
        auth == get_auth_headers(settings.module, args, now)
        request_headers == IF args.auth_required THEN auth.headers ELSE NoHeaders
    IN  /\ client.pc = "request"
        /\ session' = (IF session THEN session ELSE connect(session))
        /\ IF args.auth_required /\ auth.error # "none"
           THEN /\ client' = Ended("raised", auth.error)
                /\ result' = ErrorDetail(401, "Secret key not configured", "none")
                /\ wire' = wire
           ELSE \/ \E status \in Statuses, header \in RetryAfterHeaders, body \in Bodies :
                     /\ header # "absent" => status = 429
                     /\ status = 429 => body = "text"
                     /\ wire' = wire \o <<Sent(args, request_headers),
                                          Answer(status, header, body)>>
                     /\ IF is_rate_limited(status)
                        THEN client' = Ended("limited", "none") /\ result' = NoPayload
                        ELSE IF is_error_status(status)
                        THEN /\ client' = Ended("raised", ToString(status))
                             /\ result' = ErrorDetail(status, message_of(body),
                                                      details_of(body))
                        ELSE /\ client' = Ended("returned", "none")
                             /\ result' = Payload("upstream", body, 0, 0)
                \/ \E failure \in {"connect_error", "timeout"} :
                     \* httpx.TimeoutException is a httpx.RequestError: the
                     \* first except clause takes both
                     /\ wire' = wire \o <<Sent(args, request_headers), Failed(failure)>>
                     /\ client' = Ended("raised", "503")
                     /\ result' = ErrorDetail(503, "Connection error", "none")
        /\ UNCHANGED <<settings, frames, now, earlier>>

\* lines 317-319: read Retry-After, sleep, call _make_request again with the
\* same arguments
RetryAfterSleep ==
    LET header == wire[Len(wire)].header
        retry_after == retry_after_seconds(header)
    IN  /\ client.pc = "limited"
        /\ IF retry_after < 0
           THEN /\ client' = Ended("raised", "ValueError")
                /\ UNCHANGED <<frames, wire, now>>
           ELSE /\ wire' = Append(wire, Slept(retry_after))
                /\ now' = now + retry_after
                /\ IF Len(frames) >= RecursionLimit
                   THEN /\ client' = Ended("raised", "RecursionError")
                        /\ frames' = frames
                   ELSE /\ client' = Ended("request", "none")
                        /\ frames' = Append(frames, frames[Len(frames)])
        /\ UNCHANGED <<settings, session, result, earlier>>

HttpNext == MakeRequest \/ SessionRequest \/ RetryAfterSleep

\* ---- the life of one client object
MaxClock == 2

\* a domain method of the client's module is called
DomainCall == \E args \in DomainCalls(settings.module) : Request(args)

\* connect(), or entering `async with`
Connect ==
    /\ client.pc = "idle"
    /\ session' = connect(session)
    /\ UNCHANGED <<settings, client, frames, wire, now, result, earlier>>

\* disconnect(), or leaving `async with`
Disconnect ==
    /\ client.pc = "idle"
    /\ session' = FALSE
    /\ UNCHANGED <<settings, client, frames, wire, now, result, earlier>>

\* the caller takes what the call handed back and may keep it; the client is
\* free for the next call
Complete ==
    /\ client.pc \in {"returned", "raised"}
    /\ client' = Ended("idle", "none")
    /\ frames' = <<>>
    /\ wire' = <<>>
    /\ result' = NoPayload
    /\ \/ earlier' = earlier
       \/ /\ client.pc = "returned"
          /\ earlier' = [args |-> frames[1], payload |-> result]
    /\ UNCHANGED <<settings, session, now>>

\* time passes between two calls
Tick ==
    /\ client.pc = "idle"
    /\ now < MaxClock
    /\ now' = now + 1
    /\ UNCHANGED <<settings, client, frames, wire, session, result, earlier>>

ClientNext ==
    DomainCall \/ SessionRequest \/ Connect \/ Disconnect \/ Complete \/ Tick

\* ------------------------------------------------------ REST handlers
\* orders.py, accounts.py and markets.py on top of the extended_client of
\* extended_client.py
PaginatedEndpoints ==
    {"get_orders", "get_order_history", "get_trades_history",
     "get_position_history", "get_market_trades", "get_orderbook",
     "get_candles", "get_funding_history"}

Endpoints ==
    PaginatedEndpoints \cup
        {"create_order", "get_account_balance", "get_markets",
         "create_twap_order", "get_account_summary"}

MinLimit == 1

MaxLimit == 1000

\* a limit checked from below only
limit_at_least_one(limit) == limit >= MinLimit

\* Query(default=100, ge=1, le=1000)
limit_valid(limit) == limit >= MinLimit /\ limit <= MaxLimit

MinDuration == 60

MaxDuration == 86400

MinInterval == 10

MaxInterval == 3600

\* TWAP parameters checked for their lower ends only
twap_params_above_minimum(duration, interval) ==
    duration >= MinDuration /\ interval >= MinInterval

\* TWAPOrderParams of app.models.orders
twap_params_valid(duration, interval) ==
    /\ duration >= MinDuration /\ duration <= MaxDuration
    /\ interval >= MinInterval /\ interval <= MaxInterval

\* the values of limit, duration and interval explored: both sides of each end
LimitChoices == {0, 1, 1000, 1001}

DurationChoices == {59, 60, 86400, 86401}

IntervalChoices == {9, 10, 3600, 3601}

RestRequest(endpoint, limit, type, duration, interval) ==
    [endpoint |-> endpoint, limit |-> limit, type |-> type,
     duration |-> duration, interval |-> interval]

\* the status the framework or the body model answers with before the handler
\* runs; 0 when the request passes
request_validation(req) ==
    IF req.endpoint \in PaginatedEndpoints /\ ~limit_valid(req.limit) THEN 422
    ELSE IF req.endpoint = "create_twap_order"
            /\ ~twap_params_valid(req.duration, req.interval) THEN 400
    ELSE 0

\* what the handler's domain method passes to _make_request
upstream_call(req) ==
    CASE req.endpoint = "get_orders" -> Call("GET", "/orders", Limit(req.limit), "none", TRUE)
      [] req.endpoint = "get_order_history" ->
            Call("GET", "/orders/history", Limit(req.limit), "none", TRUE)
      [] req.endpoint = "get_trades_history" ->
            Call("GET", "/trades", Limit(req.limit), "none", TRUE)
      [] req.endpoint = "get_position_history" ->
            Call("GET", "/positions/history", Limit(req.limit), "none", TRUE)
      [] req.endpoint = "get_market_trades" ->
            Call("GET", "/markets/BTC-USD/trades", Limit(req.limit), "none", FALSE)
      [] req.endpoint = "get_orderbook" ->
            Call("GET", "/markets/BTC-USD/orderbook", Limit(req.limit), "none", FALSE)
      [] req.endpoint = "get_candles" ->
            Call("GET", "/markets/BTC-USD/candles", Limit(req.limit), "none", FALSE)
      [] req.endpoint = "get_funding_history" ->
            Call("GET", "/markets/BTC-USD/funding", Limit(req.limit), "none", FALSE)
      [] req.endpoint = "create_order" -> Call("POST", "/orders", NoParams, "order", TRUE)
      [] req.endpoint = "create_twap_order" ->
            Call("POST", "/orders", NoParams, "twap_order", TRUE)
      [] req.endpoint = "get_markets" -> Call("GET", "/markets", NoParams, "none", FALSE)
      [] OTHER -> Call("GET", "/account", NoParams, "none", TRUE)

\* the second fetch of the account summary: get_positions()
positions_call == Call("GET", "/positions", NoParams, "none", TRUE)

Response(status, message, data) == [status |-> status, message |-> message, data |-> data]

NoResponse == Response(0, "none", NoPayload)

\* except Exception: raise HTTPException(status_code=500, detail="Failed to ...")
handler_failure == Response(500, "Failed to <operation>", NoPayload)

\* result.get("data", ...) of a body that was not JSON is the text itself
is_text(payload) == payload.kind = "upstream" /\ payload.subject = "text"

\* the mock answer for a path without mock data is {"message": ...}
is_message(payload) == payload.kind = "message"

\* handlers that read fields of what the domain method returned
ReadsFields == {"create_order", "create_twap_order", "get_orderbook"}

\* the summary computed from both fetches; AttributeError when the balance
\* is a string or the positions are not a list of objects
account_summary(balance, positions) ==
    IF is_text(balance) \/ is_text(positions) \/ is_message(positions)
    THEN handler_failure
    ELSE Response(200, "none", Payload("summary", "account", 0, 2))

\* a summary built from the balance alone when the positions fetch failed
get_account_summary_partial(fetched) ==
    IF ~fetched[1].ok THEN handler_failure
    ELSE IF Len(fetched) = 1 THEN NoResponse
    ELSE IF ~fetched[2].ok THEN Response(200, "none", Payload("summary", "account", 0, 1))
    ELSE account_summary(fetched[1].payload, fetched[2].payload)

\* get_account_summary after each fetch: NoResponse while a fetch is left
get_account_summary(fetched) ==
    IF ~fetched[Len(fetched)].ok THEN handler_failure
    ELSE IF Len(fetched) = 1 THEN NoResponse
    ELSE account_summary(fetched[1].payload, fetched[2].payload)

\* every other handler after its one call
handler_response(endpoint, outcome) ==
    IF ~outcome.ok THEN handler_failure
    ELSE IF endpoint \in ReadsFields /\ is_text(outcome.payload) THEN handler_failure
    ELSE Response(200, "none", outcome.payload)

NoRest ==
    [stage |-> "idle", req |-> RestRequest("none", 0, "none", 0, 0),
     upstream |-> 0, fetched |-> <<>>, response |-> NoResponse]

GatewayInit ==
    /\ HttpInit
    /\ settings.module = "extended_client"
    /\ rest = NoRest

\* a request arrives: validation, then the handler up to its first await
Receive ==
    \E endpoint \in Endpoints, limit \in LimitChoices, type \in {"twap", "limit"},
       duration \in DurationChoices, interval \in IntervalChoices :
        LET req == RestRequest(endpoint, limit, type, duration, interval)
        IN  /\ rest.stage = "idle"
            /\ endpoint \notin PaginatedEndpoints => limit = MinLimit
            /\ endpoint # "create_twap_order" =>
                   type = "limit" /\ duration = MinDuration /\ interval = MinInterval
            /\ IF request_validation(req) # 0
               THEN /\ rest' = [rest EXCEPT !.stage = "responded", !.req = req,
                                   !.response = Response(request_validation(req),
                                                         "validation error", NoPayload)]
                    /\ UNCHANGED hvars
               ELSE IF endpoint = "create_twap_order" /\ type # "twap"
               THEN \* the HTTPException(400) is raised inside the try block
                    /\ rest' = [rest EXCEPT !.stage = "responded", !.req = req,
                                   !.response = handler_failure]
                    /\ UNCHANGED hvars
               ELSE /\ rest' = [rest EXCEPT !.stage = "calling", !.req = req,
                                   !.upstream = 1]
                    /\ Request(upstream_call(req))

\* the awaited call ended: the handler answers, or goes on to its next fetch
Resume ==
    LET fetched == Append(rest.fetched, [ok |-> client.pc = "returned", payload |-> result])
        response == IF rest.req.endpoint = "get_account_summary"
                    THEN get_account_summary(fetched)
                    ELSE handler_response(rest.req.endpoint, fetched[1])
    IN  /\ rest.stage = "calling"
        /\ client.pc \in {"returned", "raised"}
        /\ rest' = [rest EXCEPT !.fetched = fetched,
                       !.stage = IF response = NoResponse THEN "next" ELSE "responded",
                       !.response = response]
        /\ client' = Ended("idle", "none")
        /\ frames' = <<>>
        /\ result' = NoPayload
        /\ UNCHANGED <<settings, wire, session, now, earlier>>

\* get_account_summary: the positions fetch follows the balance fetch
SecondFetch ==
    /\ rest.stage = "next"
    /\ rest' = [rest EXCEPT !.stage = "calling", !.upstream = @ + 1]
    /\ Request(positions_call)

GatewayNext ==
    \/ Receive
    \/ SessionRequest /\ UNCHANGED rest
    \/ RetryAfterSleep /\ UNCHANGED rest
    \/ Resume
    \/ SecondFetch

\* ------------------------------------------------- Stark credentials
kvars == <<credentials, minted, wallets, reply, registrations>>

MaxKeys == 5

\* what is passed as db: the SQLAlchemy Session of get_db, or a supabase Client
DbKinds == {"session", "supabase"}

\* what is passed as user: a User object, or the dict of a supabase row
UserKinds == {"User", "dict"}

Addresses == {"0xaaa", "0xbbb"}

Outcome(op, success, message) == [op |-> op, success |-> success, message |-> message]

NoOutcome == Outcome("none", FALSE, "none")

\* generate_stark_credentials(): the key drawn after `drawn` earlier ones
generate_stark_credentials(drawn) ==
    [private_key |-> drawn + 1, public_key |-> <<"public", drawn + 1>>]

\* create_extended_account: user.id of a dict raises AttributeError, in the
\* try block and again in its except clause
create_extended_account(user, drawn, t) ==
    LET stark_credentials == generate_stark_credentials(drawn)
    IN  [raised |-> user = "dict",
         success |-> user # "dict",
         api_key |-> <<"api_key_testnet", t>>,
         api_secret |-> <<"api_secret_testnet", t>>,
         stark_private_key |-> stark_credentials.private_key,
         environment |-> "testnet"]

\* store_extended_credentials: update the row when there is one, insert otherwise
store_extended_credentials(rows, account_data) ==
    <<[extended_api_key |-> account_data.api_key,
       extended_secret_key |-> account_data.api_secret,
       extended_stark_private_key |-> account_data.stark_private_key,
       environment |-> account_data.environment,
       is_mock_enabled |-> account_data.environment = "testnet"]>>

\* setup_user_for_extended; db.query of a supabase Client raises
\* AttributeError, which the except clause turns into (False, message)
setup_user_for_extended(rows, db, user, drawn, t) ==
    LET account_result == create_extended_account(user, drawn, t)
    IN  IF account_result.raised
        THEN [credentials |-> rows, raised |-> TRUE, success |-> FALSE,
              message |-> "AttributeError"]
        ELSE IF db # "session"
        THEN [credentials |-> rows, raised |-> FALSE, success |-> FALSE,
              message |-> "Setup failed"]
        ELSE [credentials |-> store_extended_credentials(rows, account_result),
              raised |-> FALSE, success |-> TRUE,
              message |-> "Extended Exchange account created successfully"]

CredentialsInit ==
    /\ credentials = <<>>
    /\ minted = 0
    /\ wallets = <<>>
    /\ reply = NoOutcome
    /\ registrations = <<>>

\* extended_account_service.setup_user_for_extended(db, user, wallet_address)
SetupUserForExtended ==
    \E db \in DbKinds, user \in UserKinds :
        LET r == setup_user_for_extended(credentials, db, user, minted, now)
        IN  /\ minted < MaxKeys
            /\ credentials' = r.credentials
            /\ minted' = minted + 1
            /\ reply' = Outcome("setup_user_for_extended", r.success, r.message)
            /\ UNCHANGED <<wallets, registrations>>

\* POST /users of users.py: the user and its credentials row are created
\* together, the key drawn from secrets.token_hex
CreateUser ==
    /\ credentials = <<>>
    /\ minted < MaxKeys
    /\ credentials' = <<[extended_api_key |-> <<>>, extended_secret_key |-> <<>>,
                         extended_stark_private_key |-> minted + 1,
                         environment |-> "testnet", is_mock_enabled |-> TRUE]>>
    /\ minted' = minted + 1
    /\ reply' = Outcome("create_user", TRUE, "User created successfully")
    /\ UNCHANGED <<wallets, registrations>>

\* the fields UserCreateRequest of models/users.py declares
UserCreateRequest == {"email"}

CavosIds == {"cavos-1", "cavos-2"}

\* the JSON bodies a front end posts to /users/register
RegisterBodies ==
    [provider : {"google"}, email : {"a@example.com"}, cavos_user_id : CavosIds,
     wallet_address : Addresses]

\* the body as the route receives it: a UserCreateRequest keeps the fields it
\* declares and drops the others
parse_body(body) == [f \in DOMAIN body \cap UserCreateRequest |-> body[f]]

Registered(success, status, profiles_after, wallets_after, credentials_after, drawn) ==
    [success |-> success, status |-> status, profiles |-> profiles_after,
     wallets |-> wallets_after, credentials |-> credentials_after, minted |-> drawn]

\* create_user of users/service.py.  The first log call reads
\* user_data.provider and user_data.cavos_user_id; ensure_user_profile and the
\* helpers after it read db.table, which a Session does not have; and
\* UserCreateResponse has no create_success.  Each raises AttributeError inside
\* the try block, which answers 500; what was written before stays written.
create_user(db, user_data, profile_rows, wallet_rows, credential_rows, drawn, user_row) ==
    IF ~({"provider", "cavos_user_id", "email"} \subseteq DOMAIN user_data)
    THEN Registered(FALSE, 500, profile_rows, wallet_rows, credential_rows, drawn)
    ELSE IF db = "session"
    THEN Registered(FALSE, 500, profile_rows, wallet_rows, credential_rows, drawn)
    ELSE LET \* ensure_user_wallet sets Extended up for a wallet it has just
             \* created; the user it passes is a dict
             first == IF wallet_rows = <<>> /\ user_row THEN 1 ELSE 0
             \* ensure_extended_credentials looks for a row in the supabase
             \* table astrade_user_credentials, which nothing writes, and sets
             \* up again
             second == 1
         IN  Registered(FALSE, 500,
                        IF profile_rows = <<>> THEN <<RegisteredRow>>
                        ELSE profile_rows,
                        <<user_data.wallet_address>>, credential_rows,
                        drawn + first + second)

\* register_user_from_frontend of users/routes.py: db is the Session of
\* get_db; the HTTPException of create_user is raised again as a 500
register_user_from_frontend(body, profile_rows, wallet_rows, credential_rows, drawn, user_row) ==
    create_user("session", parse_body(body), profile_rows, wallet_rows,
                credential_rows, drawn, user_row)

\* POST /users/register
RegisterUser ==
    \E body \in RegisterBodies, user_row \in BOOLEAN :
        \E r \in {register_user_from_frontend(body, profiles, wallets, credentials,
                                              minted, user_row)} :
            /\ profiles' = r.profiles
            /\ wallets' = r.wallets
            /\ minted' = r.minted
            /\ credentials' = r.credentials
            /\ reply' = Outcome("register", r.success,
                                IF r.success THEN "created" ELSE "Failed to register user")
            /\ registrations' =
                   SubSeq(Append(registrations, [body |-> body, answer |-> r]),
                          IF Len(registrations) = 2 THEN 2 ELSE 1,
                          Len(registrations) + 1)

\* POST /users/{user_id}/extended/setup: setup_extended_for_existing_user;
\* get_user_by_id reads db.table, get_user_credentials reads db.query, so
\* neither kind of db gets as far as setup_user_for_extended
SetupExtendedForExistingUser ==
    \E db \in DbKinds :
        /\ reply' =
              IF db = "session" \/ wallets = <<>>
              THEN Outcome("setup_existing", FALSE, "User not found")
              ELSE Outcome("setup_existing", FALSE, "Setup failed")
        /\ UNCHANGED <<credentials, minted, wallets, registrations>>

CredentialsNext ==
    SetupUserForExtended \/ CreateUser \/ RegisterUser \/ SetupExtendedForExistingUser

\* ------------------------------------------------- identity resolution
ivars == <<users, identity>>

\* the modules that define get_current_user
Resolvers == {"users/dependencies", "services/auth", "services/database"}

UserIds == {"u1", "u2"}

\* the X-User-ID header of a request: not sent, sent empty, or naming an id
HeaderChoices == {None, <<"">>} \cup {<<id>> : id \in UserIds}

\* the table each module looks the user up in
store_of(module) == IF module = "users/dependencies" THEN "supabase" ELSE "session"

Identity(module, header, status, detail) ==
    [module |-> module, header |-> header, status |-> status, detail |-> detail]

NoIdentity == Identity("none", None, 0, "none")

\* `not x_user_id` of Python: None and the empty string
is_blank(header) == header = None \/ header = <<"">>

\* users/dependencies.py: the 404 is raised inside the try block and caught
\* by `except Exception`, which answers 401
get_current_user_dependencies(header, rows, db_fails) ==
    IF is_blank(header)
    THEN Identity("users/dependencies", header, 401, "X-User-ID header is required")
    ELSE IF db_fails \/ header[1] \notin rows
    THEN Identity("users/dependencies", header, 401, "Could not validate user")
    ELSE Identity("users/dependencies", header, 0, "user")

\* services/auth.py: the header is declared Header(...), so a request without
\* it is refused by the framework with 422; the 404 is caught as above
get_current_user_auth(header, rows, db_fails) ==
    IF header = None
    THEN Identity("services/auth", header, 422, "field required")
    ELSE IF db_fails \/ header[1] \notin rows
    THEN Identity("services/auth", header, 401, "Authentication failed")
    ELSE Identity("services/auth", header, 0, "user")

\* services/database.py: no try block; a failing query reaches the general
\* exception handler of main.py
get_current_user_database(header, rows, db_fails) ==
    IF is_blank(header)
    THEN Identity("services/database", header, 401, "X-User-ID header is required")
    ELSE IF db_fails
    THEN Identity("services/database", header, 500, "Internal server error")
    ELSE IF header[1] \notin rows
    THEN Identity("services/database", header, 404, "User not found")
    ELSE Identity("services/database", header, 0, "user")

get_current_user(module, header, rows, db_fails) ==
    CASE module = "users/dependencies" -> get_current_user_dependencies(header, rows, db_fails)
      [] module = "services/auth" -> get_current_user_auth(header, rows, db_fails)
      [] OTHER -> get_current_user_database(header, rows, db_fails)

IdentityInit ==
    /\ users = [session |-> {}, supabase |-> {}]
    /\ identity = NoIdentity

\* a user row appears: db.add(db_user) of POST /users for the session store,
\* a sign-up with the auth provider for the supabase store
AddUser ==
    \E store \in {"session", "supabase"}, id \in UserIds :
        /\ id \notin users[store]
        /\ users' = [users EXCEPT ![store] = @ \cup {id}]
        /\ UNCHANGED identity

\* a request reaches an endpoint that depends on get_current_user
ResolveIdentity ==
    \E module \in Resolvers, header \in HeaderChoices, db_fails \in BOOLEAN :
        /\ identity' = get_current_user(module, header, users[store_of(module)], db_fails)
        /\ UNCHANGED users

IdentityNext == AddUser \/ ResolveIdentity

\* ------------------------------------------------------ request signing
\* arguments of _generate_signature, with the secret in force
SignInput(secret, timestamp, method, path, body) ==
    [secret |-> secret, timestamp |-> timestamp, method |-> method,
     path |-> path, body |-> body]

Secrets == {"key-a", "key-b"}

Timestamps == {1000, 2000}

Methods == {"GET", "get", "POST"}

Paths == {"/orders", "/positions"}

BodyChoices == {"", "{order}"}

SignInputs ==
    {SignInput(secret, timestamp, method, path, body) :
        secret \in Secrets, timestamp \in Timestamps, method \in Methods,
        path \in Paths, body \in BodyChoices}

Fields == {"secret", "timestamp", "method", "path", "body"}

\* the inputs that are x itself or x with one field changed
OneFieldApart(x) ==
    {y \in SignInputs : \A f \in Fields, g \in Fields : (x[f] # y[f] /\ x[g] # y[g]) => f = g}

signature_of(module, x) ==
    sign(module, x.secret, x.timestamp, x.method, x.path, x.body).signature

NoSigning ==
    [module |-> "none", first |-> SignInput("", 0, "", "", ""),
     second |-> SignInput("", 0, "", "", ""),
     first_signature |-> NoSignature, second_signature |-> NoSignature]

SigningInit == signing = NoSigning

\* two requests signed by one client, the second like the first or one field
\* away from it
SignTwice ==
    \E module \in Implementations, x \in SignInputs :
        \E y \in OneFieldApart(x) :
            /\ signing = NoSigning
            /\ signing' = [module |-> module, first |-> x, second |-> y,
                           first_signature |-> signature_of(module, x),
                           second_signature |-> signature_of(module, y)]

\* the pair is dropped before the next one
Forget ==
    /\ signing # NoSigning
    /\ signing' = NoSigning

SigningNext == SignTwice \/ Forget

\* ---------------------------------------------------------- specifications
vars ==
    <<today, configDays, profiles, nfts, last, calls, settings, client, frames,
      wire, session, now, result, earlier, rest, credentials, minted, wallets,
      reply, registrations, users, identity, signing>>

NoCalls == calls = [c \in Callers |-> Idle]

ClientUnused ==
    /\ settings = [use_mock_data |-> TRUE, secret_key |-> FALSE,
                   module |-> "extended_client"]
    /\ client = Ended("idle", "none")
    /\ frames = <<>>
    /\ wire = <<>>
    /\ session = FALSE
    /\ now = 0
    /\ result = NoPayload
    /\ earlier = NoEarlier

Init == RewardsInit /\ NoCalls /\ ClientUnused /\ rest = NoRest /\ CredentialsInit
        /\ IdentityInit
        /\ SigningInit

Next == RewardsNext /\ UNCHANGED <<calls, hvars, rest, kvars, ivars, signing>>

\* the rewards handlers run one after another
Spec == Init /\ [][Next]_vars

\* two claims of one day interleave at their storage calls
ConcurrentSpec == Init /\ [][ConcurrentNext /\ UNCHANGED <<hvars, rest, kvars, ivars, signing>>]_vars

HttpStart ==
    /\ today = Day0 /\ configDays = {} /\ profiles = <<>> /\ nfts = <<>>
    /\ last = NoCall /\ NoCalls
    /\ HttpInit
    /\ rest = NoRest
    /\ CredentialsInit
    /\ IdentityInit
    /\ SigningInit

\* one call of _make_request against an exchange answering as it likes
HttpSpec == HttpStart /\ [][HttpNext /\ UNCHANGED <<rvars, calls, rest, kvars, ivars, signing>>]_vars

\* the same, with the event loop running every step that can run
HttpLiveSpec == HttpSpec /\ WF_vars(HttpNext /\ UNCHANGED <<rvars, calls, rest, kvars, ivars, signing>>)

GatewayStart ==
    /\ today = Day0 /\ configDays = {} /\ profiles = <<>> /\ nfts = <<>>
    /\ last = NoCall /\ NoCalls
    /\ GatewayInit
    /\ CredentialsInit
    /\ IdentityInit
    /\ SigningInit

\* one REST request handled by the gateway, the exchange answering as it likes
GatewaySpec == GatewayStart /\ [][GatewayNext /\ UNCHANGED <<rvars, calls, kvars, ivars, signing>>]_vars

\* one client object used for call after call; a call answered 429 is left
\* asleep here, its retries being the matter of HttpSpec
ClientSpec == HttpStart /\ [][ClientNext /\ UNCHANGED <<rvars, calls, rest, kvars, ivars, signing>>]_vars

\* the credentials operations on one user's row, in any order
CredentialStart ==
    /\ today = Day0 /\ configDays = {} /\ profiles = <<>> /\ nfts = <<>>
    /\ last = NoCall /\ NoCalls
    /\ ClientUnused
    /\ rest = NoRest
    /\ CredentialsInit
    /\ IdentityInit
    /\ SigningInit

CredentialSpec ==
    CredentialStart
        /\ [][CredentialsNext /\ UNCHANGED <<rvars, calls, hvars, rest, ivars, signing>>]_vars

IdentityStart ==
    /\ today = Day0 /\ configDays = {} /\ profiles = <<>> /\ nfts = <<>>
    /\ last = NoCall /\ NoCalls
    /\ ClientUnused
    /\ rest = NoRest
    /\ CredentialsInit
    /\ IdentityInit
    /\ SigningInit

\* requests resolved against the users tables as they fill
IdentitySpec ==
    IdentityStart
        /\ [][IdentityNext /\ UNCHANGED <<rvars, calls, hvars, rest, kvars, signing>>]_vars

SigningStart ==
    /\ today = Day0 /\ configDays = {} /\ profiles = <<>> /\ nfts = <<>>
    /\ last = NoCall /\ NoCalls
    /\ ClientUnused
    /\ rest = NoRest
    /\ CredentialsInit
    /\ IdentityInit
    /\ SigningInit

\* pairs of requests signed by either implementation
SigningSpec ==
    SigningStart
        /\ [][SigningNext /\ UNCHANGED <<rvars, calls, hvars, rest, kvars, ivars>>]_vars

\* ================================================================ claims
\* what a reader of the stored row sees; an absent row or an unset streaks
\* column reads as the zero streak
StoredStreak(rows, kind) ==
    IF rows = <<>> \/ rows[1].streaks = <<>> THEN NewStreak ELSE rows[1].streaks[1][kind]

StoredExperience(rows) == IF rows = <<>> THEN 0 ELSE rows[1].experience

StoredLog(rows) == IF rows = <<>> THEN <<>> ELSE rows[1].daily_rewards_claimed

LogHolds(rows, day, kind) ==
    \E i \in 1..Len(StoredLog(rows)) :
        StoredLog(rows)[i].date = <<day>> /\ StoredLog(rows)[i].type = kind

\* a step of a handler is told by the result it leaves (NextDay leaves last
\* alone and moves today)
ClaimStep == today' = today /\ last'.op = "claim"

RecordStep == today' = today /\ last'.op = "record"

DailyClaimStep == ClaimStep /\ last'.reward_type = "daily_streak"

\* C1: a daily_streak claim made when the log already holds a daily_streak
\* entry of today returns success = false and leaves the stored row (streaks,
\* experience, level, log) as it was.
C1_SameDayClaimRejected ==
    [][ (DailyClaimStep /\ LogHolds(profiles, today, "daily_streak"))
          => (last'.success = FALSE /\ profiles' = profiles) ]_vars

C1_Witness ==
    /\ last.op = "claim" /\ last.reward_type = "daily_streak"
    /\ last.outcome = "already"
    /\ StoredStreak(profiles, "daily_login").current_streak = 7

\* C2: a successful daily_streak claim at current_streak n, made the day after
\* the last claim, stores n+1 and max(longest, n+1) and awards the entry of
\* day min(n+1, 7); the lookup never goes out of range.
C2_ClaimAwardsDayEntry ==
    [][ (/\ DailyClaimStep
         /\ ~LogHolds(profiles, today, "daily_streak")
         /\ StoredStreak(profiles, "daily_login").last_activity_date \in {<<>>, <<today - 1>>})
          => LET n == StoredStreak(profiles, "daily_login").current_streak
                 longest == StoredStreak(profiles, "daily_login").longest_streak
             IN  /\ last'.outcome # "error"
                 /\ last'.success =>
                      /\ StoredStreak(profiles', "daily_login").current_streak = n + 1
                      /\ StoredStreak(profiles', "daily_login").longest_streak
                            = IF longest > n + 1 THEN longest ELSE n + 1
                      /\ last'.reward.day = (IF n + 1 < 7 THEN n + 1 ELSE 7) ]_vars

StreakKinds == {"daily_login", "galaxy_explorer"}

\* C3: for both streak kinds longest_streak never decreases, equals
\* max(previous longest, new current) after every streak update, and is at
\* least current_streak in every reachable state.
C3_LongestStreakMonotone ==
    /\ [](\A kind \in StreakKinds :
            StoredStreak(profiles, kind).longest_streak
                >= StoredStreak(profiles, kind).current_streak)
    /\ [][ \A kind \in StreakKinds :
             LET old == StoredStreak(profiles, kind)
                 new == StoredStreak(profiles', kind)
             IN  /\ new.longest_streak >= old.longest_streak
                 /\ new # old =>
                      new.longest_streak =
                        (IF old.longest_streak > new.current_streak
                         THEN old.longest_streak ELSE new.current_streak) ]_vars

C3_Witness ==
    /\ last.op = "record" /\ last.outcome = "ok"
    /\ StoredStreak(profiles, "galaxy_explorer").current_streak = 1
    /\ StoredStreak(profiles, "galaxy_explorer").longest_streak > 1

\* C4: a successful daily_login claim increments current_streak only when
\* last_activity_date is the day before today (or unset); after a gap of more
\* than one day it sets current_streak to 1.
C4_DailyStreakResetsOnGap ==
    [][ (DailyClaimStep /\ last'.success)
          => LET old == StoredStreak(profiles, "daily_login")
                 new == StoredStreak(profiles', "daily_login")
             IN  IF old.last_activity_date = <<>> \/ old.last_activity_date = <<today - 1>>
                 THEN new.current_streak = old.current_streak + 1
                 ELSE new.current_streak = 1 ]_vars

\* C5: a record-activity event of today that is not a same-day repeat sets the
\* galaxy_explorer current_streak to previous+1 when last_activity_date is
\* yesterday or unset, to 1 when the gap is two days or more, and sets
\* last_activity_date to today.
C5_GalaxyStreakTransition ==
    [][ (/\ RecordStep /\ last'.success
         /\ StoredStreak(profiles, "galaxy_explorer").last_activity_date # <<today>>)
          => LET old == StoredStreak(profiles, "galaxy_explorer")
                 new == StoredStreak(profiles', "galaxy_explorer")
             IN  /\ new.last_activity_date = <<today>>
                 /\ IF old.last_activity_date = <<>> \/ old.last_activity_date = <<today - 1>>
                    THEN new.current_streak = old.current_streak + 1
                    ELSE new.current_streak = 1 ]_vars

\* C6: two claims of the same user and day whose select and update steps
\* interleave both pass the guard and both answer success, while the stored
\* streak, experience and log reflect one claim only.
C6_LostUpdate ==
    (\A c \in Callers :
        calls[c].pc = "done" /\ calls[c].success /\ calls[c].reward_type = "daily_streak")
    => \A c \in Callers :
         LET read == calls[c].read
             n == read.streaks[1].daily_login.current_streak
         IN  /\ \A d \in Callers :
                   calls[d].read.streaks[1].daily_login.current_streak = n
             /\ profiles[1].streaks[1].daily_login.current_streak = n + 1
             /\ profiles[1].experience = read.experience + calls[c].plan.reward.amount
             /\ Len(profiles[1].daily_rewards_claimed)
                   = Len(read.daily_rewards_claimed) + 1

C6_Witness ==
    \A c \in Callers :
        calls[c].pc = "done" /\ calls[c].success /\ calls[c].reward_type = "daily_streak"

\* C7: a record-activity event for a user whose log already holds a
\* galaxy_explorer entry of today is rejected: it returns false and does not
\* change the stored row.
C7_RepeatRecordRejected ==
    [][ (RecordStep /\ LogHolds(profiles, today, "galaxy_explorer"))
          => (last'.success = FALSE /\ profiles' = profiles) ]_vars

\* C8: every successful claim adds the awarded amount to experience, and
\* level = floor(experience / 1000) + 1 in every reachable state.
C8_LevelFollowsExperience ==
    /\ [](profiles # <<>> =>
            profiles[1].level = (profiles[1].experience \div 1000) + 1)
    /\ [][ (ClaimStep /\ last'.success)
             => StoredExperience(profiles') =
                    StoredExperience(profiles) + last'.reward.amount ]_vars

C8_Witness ==
    /\ last.op = "claim" /\ last.success
    /\ profiles[1].experience >= 1000
    /\ profiles[1].experience - last.reward.amount < 1000
    /\ profiles[1].level = 2

\* what the claims call an answer, a finished call, a number of seconds
Finished == client.pc \in {"returned", "raised"}

AnswerPositions == {i \in 1..Len(wire) : wire[i].kind = "response"}

OutcomePositions ==
    {i \in 1..Len(wire) : wire[i].kind \in {"response", "connect_error", "timeout"}}

\* what came back for the latest request put on the wire
LastAnswer ==
    wire[CHOOSE i \in OutcomePositions : \A j \in OutcomePositions : j <= i]

EndedOn429 ==
    /\ Finished
    /\ OutcomePositions # {}
    /\ LastAnswer.kind = "response"
    /\ LastAnswer.status = 429

SecondsNamed(header) ==
    CASE header = "absent" -> {60} [] header = "0" -> {0} [] header = "2" -> {2}
      [] OTHER -> 0..60

\* C9: in live mode every 429 answer is followed first by a sleep of the
\* Retry-After seconds (60 when the header is absent) and then by exactly one
\* retry carrying the arguments of the request that was answered.
C9_RateLimitRetry ==
    \A i \in AnswerPositions :
        wire[i].status = 429 =>
            \/ i = Len(wire) /\ client.pc = "limited"
            \/ /\ i + 1 <= Len(wire)
               /\ wire[i + 1].kind = "sleep"
               /\ wire[i + 1].seconds \in SecondsNamed(wire[i].header)
               /\ \/ i + 1 = Len(wire) /\ client.pc = "request"
                  \/ /\ i + 2 <= Len(wire)
                     /\ wire[i + 2].kind = "request"
                     /\ wire[i + 2].args = wire[i - 1].args

C11_MockNeverTouchesNetwork ==
    settings.use_mock_data =>
        /\ ~session
        /\ wire = <<>>
        /\ client.pc \in {"idle", "returned"}
        /\ client.pc = "returned" =>
               result.kind \notin {"none", "error", "upstream"}

\* C12: in mock mode two GET calls with the same method, path and parameters
\* return the same payload, whatever time passed and whatever was called in
\* between.
C12_MockGetIdempotent ==
    /\ settings.use_mock_data
    /\ client.pc = "returned"
    /\ frames[1].method = "GET"
    /\ earlier.args = frames[1]
    => result = earlier.payload

RequestPositions == {i \in 1..Len(wire) : wire[i].kind = "request"}

\* C13: every auth_required request carries X-Timestamp and X-Signature, the
\* signature being the HMAC of timestamp + method + path + body under the
\* shared secret; without a secret such a call fails with the auth error and
\* nothing is sent, in either module and either mode.
C13_SignedOrRefused ==
    /\ \A i \in RequestPositions :
           wire[i].args.auth_required =>
               /\ settings.secret_key
               /\ wire[i].headers.auth
               /\ wire[i].headers.X_Signature =
                      hmac_sha256(SecretKey,
                          <<wire[i].headers.X_Timestamp, wire[i].args.method,
                            wire[i].args.path, json_dumps(wire[i].args.data)>>)
    /\ frames # <<>> /\ frames[1].auth_required /\ ~settings.secret_key =>
           \/ client.pc = "request" /\ wire = <<>>
           \/ client = Ended("raised", "401") /\ wire = <<>>

LastEvent == wire[Len(wire)]

\* C14: in live mode an answer that is neither 2xx nor 429 makes the call
\* raise the typed error with that status, the upstream message and the
\* upstream details, and only 2xx answers are returned as a result.
C14_Non2xxRaisesTyped ==
    wire # <<>> /\ LastEvent.kind = "response" /\ LastEvent.status # 429 =>
        IF LastEvent.status \in 200..299
        THEN client.pc = "returned"
        ELSE /\ client = Ended("raised", ToString(LastEvent.status))
             /\ result.kind = "error"
             /\ result.code = LastEvent.status
             /\ LastEvent.body # "text" => result.message = "upstream message"
             /\ LastEvent.body = "json_details" => result.details = "upstream details"

\* C15: a network failure of a live request is never retried and is told
\* apart: a connection failure raises 503, a timeout raises 408.
C15_NetworkFailureKinds ==
    \A i \in 1..Len(wire) :
        wire[i].kind \in {"connect_error", "timeout"} =>
            /\ i = Len(wire)
            /\ client.pc = "raised"
            /\ client.error = IF wire[i].kind = "timeout" THEN "408" ELSE "503"

Responded == rest.stage = "responded"

\* C16: when the exchange rejects the call of a handler with a 4xx status,
\* the REST response carries that status and the upstream message.
C16_Upstream4xxPropagated ==
    /\ Responded
    /\ wire # <<>>
    /\ LastEvent.kind = "response"
    /\ LastEvent.status \in 400..499
    /\ LastEvent.status # 429
    => /\ rest.response.status = LastEvent.status
       /\ rest.response.message = message_of(LastEvent.body)

LimitOutOfRange == rest.req.limit < 1 \/ rest.req.limit > 1000

\* C17: a limit outside [1, 1000] on a paginated endpoint is answered with a
\* validation error and the upstream client is never called.
C17_BadLimitNeverReachesUpstream ==
    rest.req.endpoint \in PaginatedEndpoints /\ LimitOutOfRange =>
        /\ Responded
        /\ rest.response.status \in 400..499
        /\ rest.response.message = "validation error"
        /\ rest.upstream = 0
        /\ rest.fetched = <<>>
        /\ client.pc = "idle"
        /\ wire = <<>>

C17_Witness ==
    /\ Responded
    /\ rest.req.endpoint = "get_candles"
    /\ rest.req.limit = 1001
    /\ rest.response.status = 422

TwapOutOfRange ==
    \/ rest.req.duration < 60 \/ rest.req.duration > 86400
    \/ rest.req.interval < 10 \/ rest.req.interval > 3600

C19_SummaryAllOrNothing ==
    rest.req.endpoint = "get_account_summary" =>
        /\ ~Responded => rest.response = NoResponse
        /\ Responded /\ rest.response.status = 200 =>
               /\ Len(rest.fetched) = 2
               /\ rest.fetched[1].ok /\ rest.fetched[2].ok
               /\ rest.response.data.kind = "summary"
        /\ Responded /\ (\E i \in 1..Len(rest.fetched) : ~rest.fetched[i].ok) =>
               /\ rest.response.status >= 400
               /\ rest.response.data = NoPayload

C19_Witness ==
    /\ Responded
    /\ rest.req.endpoint = "get_account_summary"
    /\ Len(rest.fetched) = 2
    /\ rest.fetched[1].ok
    /\ ~rest.fetched[2].ok
    /\ rest.response.status = 500

\* C20: once a user has a credentials row, no operation replaces the Stark
\* private key stored in it, and the row stays
C20_StarkKeyNeverReplaced ==
    [][credentials # <<>> =>
          /\ credentials' # <<>>
          /\ credentials'[1].extended_stark_private_key
                 = credentials[1].extended_stark_private_key]_vars

\* a row whose streaks column has been set by initialize_user_profile
Initialised(rows) == rows # <<>> /\ rows[1].streaks # <<>>

\* C21: a stored profile is changed only by claim_daily_reward and
\* record_galaxy_explorer_activity: every other step leaves an initialised
\* row as it was, and no step deletes the row or empties its claimed log.
C21_ProfileChangedOnlyByClaimOrRecord ==
    [][ /\ (profiles # <<>> => profiles' # <<>>)
        /\ (StoredLog(profiles) # <<>> => StoredLog(profiles') # <<>>)
        /\ (Initialised(profiles) /\ ~ClaimStep /\ ~RecordStep
               => profiles' = profiles) ]_vars

\* what get_daily_rewards_status answers in the present state
CanClaim == get_daily_rewards_status(profiles, today, configDays).can_claim

\* whether a daily_streak claim issued in the present state, its storage
\* calls going through, succeeds
DailyClaimSucceeds ==
    claim_daily_reward(profiles, nfts, "daily_streak", today, configDays,
                       FALSE, FALSE).success

\* C27: in every reachable state get_daily_rewards_status reports
\* can_claim = true exactly when a daily_streak claim made in that state on
\* the same day would succeed; galaxy_explorer entries of today do not matter.
C27_CanClaimIffClaimSucceeds == CanClaim <=> DailyClaimSucceeds

\* C28: a claim that returns success = false has inserted no NFT row, so a
\* failed claim that is tried again cannot leave two NFTs of one day number.
C28_FailedClaimMintsNothing ==
    [][ClaimStep /\ ~last'.success => nfts' = nfts]_vars

\* C29: claim_daily_reward, whatever its reward_type, leaves the
\* galaxy_explorer streak alone and does not keep record-activity from
\* counting the day: after every record call that returns true the stored
\* galaxy_explorer streak counts today, so N recorded consecutive days make
\* current_streak N.
C29_ClaimsDoNotDisturbGalaxyStreak ==
    /\ [][ClaimStep => StoredStreak(profiles', "galaxy_explorer")
                         = StoredStreak(profiles, "galaxy_explorer")]_vars
    /\ [][RecordStep /\ last'.success
            => /\ StoredStreak(profiles', "galaxy_explorer").last_activity_date
                     = <<today>>
               /\ StoredStreak(profiles', "galaxy_explorer").current_streak >= 1]_vars

\* the day numbers that have an entry in the table a request loads
ActiveDays(cfg) == IF cfg = {} THEN 1..7 ELSE cfg \cap (1..7)

\* C30: whatever days of 1..7 are active in the persisted configuration, a
\* daily_streak claim with day number d, d being an active day, awards the
\* entry whose day field is d, and its lookup does not fail.
C30_RewardLookedUpByDayNumber ==
    [][ (DailyClaimStep /\ ~LogHolds(profiles, today, "daily_streak"))
          => LET d == daily_day_number(StoredStreak(profiles, "daily_login"))
             IN  d \in ActiveDays(configDays)
                   => /\ last'.outcome # "error"
                      /\ last'.success => last'.reward.day = d ]_vars

\* C22: every get_current_user tells its two failures apart: a request
\* without the X-User-ID header is answered 401, and a header naming a user
\* that is not in the table is answered 404 "User not found".
C22_MissingHeader401UnknownUser404 ==
    identity.module # "none" =>
        /\ identity.header = None => identity.status = 401
        /\ (/\ ~is_blank(identity.header)
            /\ identity.header[1] \notin users[store_of(identity.module)]
            /\ identity.status # 500)
              => identity.status = 404 /\ identity.detail = "User not found"

\* C23: for fixed timestamp, method, path, body and secret the signature is
\* always the same value, and changing any single one of them, be it only
\* the letter case of the method, changes the signature.
C23_SignatureDeterminedByEveryInput ==
    signing.module # "none" =>
        (signing.first_signature = signing.second_signature
            <=> signing.first = signing.second)

\* a TWAP request, valid in its parameters, whose order type is not twap
WrongTypeTwap ==
    /\ rest.req.endpoint = "create_twap_order"
    /\ rest.req.type # "twap"
    /\ request_validation(rest.req) = 0

\* C25: POST /orders/twap with an order whose type is not twap is answered
\* 400 and nothing is sent to the exchange.
C25_WrongTypeTwapAnswered400 ==
    (Responded /\ WrongTypeTwap) =>
        /\ rest.response.status = 400
        /\ rest.upstream = 0
        /\ wire = <<>>

\* a mock get_market_stats call of extended_client.py has returned
MockStatsReturned ==
    /\ settings.module = "extended_client"
    /\ settings.use_mock_data
    /\ client.pc = "returned"
    /\ frames[1].method = "GET"
    /\ EndsWith(frames[1].path, "stats")

\* C26: in mock mode get_market_stats() with no symbol ("/markets/stats")
\* returns the statistics of all mock symbols, and get_market_stats(symbol)
\* ("/markets/{symbol}/stats") returns the single record of that symbol.
C26_MockStatsDispatch ==
    MockStatsReturned =>
        IF frames[1].path = "/markets/stats"
        THEN /\ result.kind = "stats"
             /\ result.subject = "all"
             /\ result.count = Cardinality(MockSymbols)
        ELSE /\ result.kind = "stats"
             /\ result.subject = Split(frames[1].path)[2]
             /\ result.count = 1

\* the same body was posted to /users/register twice in a row
RegisteredTwice ==
    /\ Len(registrations) = 2
    /\ registrations[1].body = registrations[2].body

\* C24: registering the same user data twice through POST /users/register
\* succeeds both times, and the second registration leaves exactly one profile
\* row, one wallet row and one credentials record, each as the first left it.
C24_RegistrationIdempotent ==
    RegisteredTwice =>
        /\ registrations[1].answer.success
        /\ registrations[2].answer.success
        /\ Len(registrations[2].answer.profiles) = 1
        /\ Len(registrations[2].answer.wallets) = 1
        /\ Len(registrations[2].answer.credentials) = 1
        /\ registrations[2].answer.profiles = registrations[1].answer.profiles
        /\ registrations[2].answer.wallets = registrations[1].answer.wallets
        /\ registrations[2].answer.credentials = registrations[1].answer.credentials

====
